---------------------------- MODULE Spec2Model ----------------------------
(***************************************************************************)
(* Model of the predefined installed source factory                        *)
(* (AppInstallerRepositoryCore/Microsoft/PredefinedInstalledSourceFactory) *)
(*                                                                         *)
(* Several processes call Factory::Create against one cache directory.     *)
(* Each process walks through the three stages of Create (reuse the        *)
(* existing cache, recreate it, in-memory index), or calls Add, Update or  *)
(* Remove.  The cross process reader/writer lock on the file, the contents *)
(* mutex, the index store and the two inventories (ARP registry scopes and *)
(* MSIX packages) are collaborators of the factory; their behaviour is     *)
(* modelled from the design description.                                   *)
(*                                                                         *)
(* Spec and FairSpec are the processes inside the factory, with an index   *)
(* record reduced to its id and its package.  MsixSpec is the loop of      *)
(* PopulateIndexFromMSIX on its own, with the fields of every manifest.    *)
(***************************************************************************)
EXTENDS Integers, FiniteSets, Sequences, TLC

\* ------------------------------------------------------------------ bounds
NumProcs == 2
NumPkgs == 3
NumMsix == 3

Procs == 1..NumProcs
Packages == 1..NumPkgs

\* ------------------------------------------------------------- inventories
\* The three inventories are disjoint: ARP Machine scope, ARP User scope, MSIX.
InventoryOf(k) ==
    CASE k % 3 = 1 -> "Machine"
      [] k % 3 = 2 -> "User"
      [] OTHER     -> "MSIX"

VARIABLES
    pc,            \* position of each process inside Create
    stage,         \* the stage of Create each process is in
    result,        \* how Create ended for each process
    reported,      \* entry set of the source handed to the caller
    fileShared,    \* holders of the file lock, shared
    fileExcl,      \* holders of the file lock, exclusive
    contentsHeld,  \* owners of the contents mutex
    cache,         \* the cache directory, cache.db and its records
    mem,           \* the in-memory index of each process
    allIds,        \* UpdateIndex: result of index.Search({})
    idsSet,        \* UpdateIndex: ids not yet found during inventory
    replacing,     \* history: a recreate pass removed the cache and left it unfinished
    abandoned,     \* history: an update pass changed records and was cut short
    updaters,      \* history: processes that ran UpdateIndex in their call
    winner,        \* history: for a process whose try-acquire failed, the owner it found
    rebuilt,       \* history: processes that waited for the exclusive file lock while
                   \*          another process rebuilt the cache from scratch
    Live,          \* environment: the packages installed on the system
    denied,        \* environment: permission denial on the cache directory
    msixPackages,  \* platform: signature kind and display name lookup of each package
    enumerated,    \* platform: the order in which each pass is handed the packages
    position,      \* PopulateIndexFromMSIX: how many packages each pass has been through
    manifest,      \* PopulateIndexFromMSIX: the manifest object each pass reuses
    msixIndex      \* PopulateIndexFromMSIX: the index each pass fills

vars == << pc, stage, result, reported, fileShared, fileExcl, contentsHeld, cache, mem,
           allIds, idsSet, replacing, abandoned, updaters, winner, rebuilt,
           Live, denied, msixPackages, enumerated, position, manifest, msixIndex >>

msixVars == << msixPackages, enumerated, position, manifest, msixIndex >>

\* The state of the factory and of the system around it.
factoryVars == << pc, stage, result, reported, fileShared, fileExcl, contentsHeld, cache,
                  mem, allIds, idsSet, replacing, abandoned, updaters, winner, rebuilt,
                  Live, denied >>

\* What no step of the factory changes: the installed packages, the permissions
\* on the cache directory, and the detailed populate passes.
env == << Live, denied, msixVars >>
locks == << fileShared, fileExcl, contentsHeld >>
updLocals == << allIds, idsSet >>
pastUpdates == << replacing, abandoned, updaters, winner >>
history == << replacing, abandoned, updaters, winner, rebuilt >>

\* ------------------------------------------------------------- index store
\* A record of the index: the id the store assigned and the package it describes.
Record(i, k) == [id |-> i, pkg |-> k]

Entries(index) == { r.pkg : r \in index }
Ids(index) == { r.id : r \in index }

MaxId(index) == IF index = {} THEN 0 ELSE CHOOSE i \in Ids(index) : \A j \in Ids(index) : j <= i

\* index.AddManifest for every package of S: each gets the next free row id.
AddManifests(index, S) ==
    index \cup { Record(MaxId(index) + Cardinality({ j \in S : j <= k }), k) : k \in S }

\* index.RemoveManifestsById
RemoveManifestsById(index, ids) == { r \in index : r.id \notin ids }

\* The packages a scan of one inventory encounters.
Scan(inv) == { k \in Live : InventoryOf(k) = inv }

\* ARPHelper::PopulateIndexFromARP(index, scope): insert every entry of the scope.
PopulateIndexFromARP(index, scope) == AddManifests(index, Scan(scope))

\* Populates the index with the entries from MSIX: one manifest per package that
\* is not a system package, added with the family name as its key.  (Live holds
\* the packages a user can manage; system packages are skipped by the loop.)
PopulateIndexFromMSIX(index) == AddManifests(index, Scan("MSIX"))

\* ARPHelper::UpdateIndexFromARP(index, scope, idsSet): an entry that is already in
\* the index keeps its record, and its id leaves idsSet; a new entry is inserted.
UpdateIndexFromARP(index, scope) == AddManifests(index, Scan(scope) \ Entries(index))

\* UpdateIndexFromMSIX(index, idsSet): the same for the MSIX packages.
UpdateIndexFromMSIX(index) == AddManifests(index, Scan("MSIX") \ Entries(index))

\* The ids a scan of the inventory finds in the index and takes out of idsSet.
FoundIds(index, inv) == { r.id : r \in { x \in index : x.pkg \in Scan(inv) } }

\* ----------------------------------------------------------- PopulateIndex
\* Put installed packages into the index: the Machine scope, the User scope, MSIX.
\* PopulateSteps is the index after the first n of the three calls.
NumScans == 3

PopulateSteps(index, n) ==
    CASE n = 0 -> index
      [] n = 1 -> PopulateIndexFromARP(index, "Machine")
      [] n = 2 -> PopulateIndexFromARP(PopulateIndexFromARP(index, "Machine"), "User")
      [] OTHER -> PopulateIndexFromMSIX(
                      PopulateIndexFromARP(PopulateIndexFromARP(index, "Machine"), "User"))

\* Variant: the User scope is not scanned.
PopulateIndex_SkipUser(index) ==
    PopulateIndexFromMSIX(PopulateIndexFromARP(index, "Machine"))

PopulateIndex(index) == PopulateSteps(index, NumScans)

\* ------------------------------------------------------------------ locks
\* CrossProcessReaderWriteLock: many shared holders or one exclusive holder.
CanLockShared(p) == fileExcl = {}

\* Variant: the exclusive lock is granted without regard to shared holders.
CanLockExclusive_IgnoreShared(p) == fileExcl = {}

CanLockExclusive(p) == fileExcl = {} /\ fileShared = {}

\* Variant: the contents mutex never refuses an acquisition.
MutexFree_Always == TRUE

\* The contents mutex is free.
MutexFree == contentsHeld = {}

\* --------------------------------------------------------------- failures
\* Two environments.  Under permission denial no operation on the cache directory
\* or file works, while the inventories enumerate.  Otherwise any file system
\* operation and any enumeration of a whole inventory may fail.
FsMayWork == ~denied
EnumMayFail == ~denied

EmptyCache == [dir |-> FALSE, file |-> FALSE, index |-> {}]

InCreate(p) == pc[p] \notin {"idle", "done", "closed"}

\* The processes whose zero-timeout try-acquire of the contents mutex failed.
Losers == { p \in Procs : winner[p] # 0 }

\* ---------------------------------------------- PopulateIndexFromMSIX, in detail
\* The loop of PopulateIndexFromMSIX with the fields of the manifest it adds.  Two
\* passes over the same platform state, each on an index of its own; the platform
\* may hand the packages to each pass in any order.
MsixIds == 1..NumMsix
Passes == {1, 2}

\* packageId.FamilyName(), package.DisplayName(), packageId.Name(), the version
\* string "Major.Minor.Build.Revision" of package k.
FamilyName(k) == << "FamilyName", k >>
DisplayName(k) == << "DisplayName", k >>
PackageName(k) == << "Name", k >>
PackageVersion(k) == << k, 0, 0, 0 >>
EmptyString == << >>

\* What the platform knows of a package: its signature kind, and what the lookup
\* of the localized display name does (it returns the name, it returns an empty
\* string, or it throws).
PackageStates ==
    { [SignatureKind |-> "System", DisplayName |-> "name"] } \cup
    { [SignatureKind |-> "Store", DisplayName |-> d] : d \in {"name", "empty", "throws"} }

\* The orders in which FindPackagesForUserWithPackageTypes may yield the packages.
EnumerationOrders ==
    { o \in [1..NumMsix -> MsixIds] : \A i, j \in 1..NumMsix : o[i] = o[j] => i = j }

\* Manifest::Manifest manifest; before the loop.
NewManifest == [Id |-> EmptyString, Name |-> EmptyString, Version |-> EmptyString]

\* index.AddManifest(manifest, path): a copy of the manifest under the next row id.
AddManifest(index, m) ==
    index \cup { [id |-> MaxId(index) + 1, Id |-> m.Id, Name |-> m.Name, Version |-> m.Version] }

\* manifest.Name after the try block around package.DisplayName(): the assignment
\* happens only if the lookup returns.
AfterDisplayName(m, k) ==
    CASE msixPackages[k].DisplayName = "name"   -> [m EXCEPT !.Name = DisplayName(k)]
      [] msixPackages[k].DisplayName = "empty"  -> [m EXCEPT !.Name = EmptyString]
      [] OTHER                                  -> m

\* if (manifest.Name.empty()) manifest.Name = packageId.Name()
AfterNameFallback(m, k) ==
    IF m.Name = EmptyString THEN [m EXCEPT !.Name = PackageName(k)] ELSE m

\* The manifest object at the AddManifest call of the iteration for package k.
ManifestFor(m, k) ==
    [ AfterNameFallback(AfterDisplayName([m EXCEPT !.Id = FamilyName(k)], k), k)
        EXCEPT !.Version = PackageVersion(k) ]

\* One iteration of the loop of pass r.
PopulateMSIXPackage(r) ==
    /\ position[r] < Len(enumerated[r])
    /\ LET k == enumerated[r][position[r] + 1]
       IN  IF msixPackages[k].SignatureKind = "System"
           THEN UNCHANGED << manifest, msixIndex >>
           ELSE /\ manifest' = [manifest EXCEPT ![r] = ManifestFor(manifest[r], k)]
                /\ msixIndex' = [msixIndex EXCEPT
                                   ![r] = AddManifest(msixIndex[r], ManifestFor(manifest[r], k))]
    /\ position' = [position EXCEPT ![r] = position[r] + 1]
    /\ UNCHANGED << msixPackages, enumerated, factoryVars >>

\* No detailed pass is going on.
NoPass ==
    /\ msixPackages = [k \in MsixIds |-> [SignatureKind |-> "Store", DisplayName |-> "name"]]
    /\ enumerated = [r \in Passes |-> << >>]
    /\ position = [r \in Passes |-> 0]
    /\ manifest = [r \in Passes |-> NewManifest]
    /\ msixIndex = [r \in Passes |-> {}]

\* ------------------------------------------------------------------- Init
\* A cache left by earlier runs holds records for any set of packages.
OldIndex(S) == { Record(k, k) : k \in S }

\* The packages of the model are the ones the system knows: a package is
\* installed, or the cache left by earlier runs has a record of it, or both.
KnownPackages(c, live) == c.file => (Entries(c.index) \cup live = Packages)

Init ==
    /\ pc = [p \in Procs |-> "idle"]
    /\ stage = [p \in Procs |-> "Start"]
    /\ result = [p \in Procs |-> "none"]
    /\ reported = [p \in Procs |-> {}]
    /\ fileShared = {}
    /\ fileExcl = {}
    /\ contentsHeld = {}
    /\ cache \in {EmptyCache} \cup
                 { [dir |-> TRUE, file |-> TRUE, index |-> OldIndex(S)] : S \in SUBSET Packages }
    /\ mem = [p \in Procs |-> {}]
    /\ allIds = [p \in Procs |-> {}]
    /\ idsSet = [p \in Procs |-> {}]
    /\ replacing = FALSE
    /\ abandoned = FALSE
    /\ updaters = {}
    /\ winner = [p \in Procs |-> 0]
    /\ rebuilt = {}
    /\ NoPass
    /\ Live \in SUBSET Packages
    /\ KnownPackages(cache, Live)
    /\ denied \in BOOLEAN

\* -------------------------------------------------------- stage transitions
Goto(p, label) == pc' = [pc EXCEPT ![p] = label]

\* Return from Create with a source or with an error.
Finish(p, how, entries) ==
    /\ pc' = [pc EXCEPT ![p] = "done"]
    /\ result' = [result EXCEPT ![p] = how]
    /\ reported' = [reported EXCEPT ![p] = entries]

\* Variant: the contents mutex is not released when the first try block is left
\* by an exception.
CatchUseExisting_KeepMutex(p) ==
    /\ contentsHeld' = contentsHeld
    /\ fileShared' = fileShared \ {p}
    /\ fileExcl' = fileExcl
    /\ stage' = [stage EXCEPT ![p] = "Recreate"]
    /\ Goto(p, "LockExclusive")

\* An exception inside the first try block: the scopes release the contents mutex
\* and the shared file lock, CATCH_LOG swallows it, control reaches the second try.
CatchUseExisting(p) ==
    /\ contentsHeld' = contentsHeld \ {p}
    /\ fileShared' = fileShared \ {p}
    /\ fileExcl' = fileExcl
    /\ stage' = [stage EXCEPT ![p] = "Recreate"]
    /\ Goto(p, "LockExclusive")

\* The last resort: CreateNew in memory, PopulateIndex, return the source with an
\* empty CrossProcessReaderWriteLock.  Nothing catches what PopulateIndex throws.
\* The in-memory index is private to the process.
CreateInMemory(p) ==
    \/ /\ mem' = [mem EXCEPT ![p] = PopulateIndex({})]
       /\ Finish(p, "InMemory", Entries(PopulateIndex({})))
    \/ /\ EnumMayFail
       /\ Finish(p, "EnumerationFailure", {})
       /\ UNCHANGED mem

\* Variant: after an exception inside the second try block the call starts over
\* with the first stage.
CatchRecreate_Retry(p) ==
    /\ fileExcl' = fileExcl \ {p}
    /\ fileShared' = fileShared \ {p}
    /\ contentsHeld' = contentsHeld
    /\ rebuilt' = rebuilt \ {p}
    /\ stage' = [stage EXCEPT ![p] = "TryUseExisting"]
    /\ Goto(p, "LockShared")
    /\ UNCHANGED << result, reported, mem >>

\* An exception inside the second try block: the exclusive (or the reacquired
\* shared) file lock is released, CATCH_LOG swallows it, the fallback follows.
CatchRecreate(p) ==
    /\ fileExcl' = fileExcl \ {p}
    /\ fileShared' = fileShared \ {p}
    /\ contentsHeld' = contentsHeld
    /\ rebuilt' = rebuilt \ {p}
    /\ stage' = [stage EXCEPT ![p] = "Fallback"]
    /\ CreateInMemory(p)

\* The call goes on: nothing is returned yet.
GoOn(p, label) ==
    /\ Goto(p, label)
    /\ UNCHANGED << result, reported, mem >>

\* ------------------------------------------------------------------ Create
\* Variant: the type of the request is looked at only once the first stage has
\* been entered.
CreateCall_LateTypeCheck(p) ==
    /\ pc[p] = "idle"
    /\ \E typeOK \in BOOLEAN :
         IF typeOK
         THEN /\ Goto(p, "LockShared")
              /\ stage' = [stage EXCEPT ![p] = "TryUseExisting"]
              /\ UNCHANGED << result, reported >>
         ELSE /\ Finish(p, "E_INVALIDARG", {})
              /\ stage' = [stage EXCEPT ![p] = "TryUseExisting"]
    /\ UNCHANGED << locks, cache, mem, updLocals, history, env >>

\* Entry of Create: the type check, then the first stage.
CreateCall(p) ==
    /\ pc[p] = "idle"
    /\ \E typeOK \in BOOLEAN :
         IF typeOK
         THEN /\ Goto(p, "LockShared")
              /\ stage' = [stage EXCEPT ![p] = "TryUseExisting"]
              /\ UNCHANGED << result, reported >>
         ELSE /\ Finish(p, "E_INVALIDARG", {})
              /\ UNCHANGED stage
    /\ UNCHANGED << locks, cache, mem, updLocals, history, env >>

\* Determines if the existing index should be completely recreated.
ShouldRecreateCache(index) == FALSE

\* LockShared(c_fileLockName) of the first stage.
LockSharedFile(p) ==
    /\ pc[p] = "LockShared"
    /\ \/ /\ CanLockShared(p)
          /\ fileShared' = fileShared \cup {p}
          /\ Goto(p, "Open")
          /\ UNCHANGED << stage, fileExcl, contentsHeld >>
       \/ CatchUseExisting(p)
    /\ UNCHANGED << result, reported, cache, mem, updLocals, history, env >>

\* SQLiteIndex::Open(cacheFile, ReadWrite) and the ShouldRecreateCache test.
OpenExisting(p) ==
    /\ pc[p] = "Open"
    /\ \/ /\ FsMayWork
          /\ cache.file
          /\ IF ShouldRecreateCache(cache.index)
             THEN CatchUseExisting(p)
             ELSE /\ Goto(p, "TryContents")
                  /\ UNCHANGED << stage, locks >>
       \/ CatchUseExisting(p)
    /\ UNCHANGED << result, reported, cache, mem, updLocals, history, env >>

\* Variant: the outcome of the try-acquire is ignored and UpdateIndex runs anyway.
TryAcquireContents_IgnoreResult(p) ==
    /\ pc[p] = "TryContents"
    /\ \/ /\ MutexFree
          /\ contentsHeld' = contentsHeld \cup {p}
          /\ Goto(p, "UpdateIndex")
          /\ UNCHANGED << stage, fileShared, fileExcl, winner >>
       \/ /\ ~MutexFree
          /\ winner' = [winner EXCEPT ![p] = CHOOSE q \in contentsHeld : TRUE]
          /\ Goto(p, "UpdateIndex")
          /\ UNCHANGED << stage, locks >>
       \/ /\ CatchUseExisting(p)
          /\ UNCHANGED winner
    /\ UNCHANGED << result, reported, cache, mem, updLocals, replacing, abandoned,
                    updaters, rebuilt, env >>

\* contentsLock.create and contentsLock.acquire(&status, 0).
TryAcquireContents(p) ==
    /\ pc[p] = "TryContents"
    /\ \/ /\ MutexFree
          /\ contentsHeld' = contentsHeld \cup {p}
          /\ Goto(p, "UpdateIndex")
          /\ UNCHANGED << stage, fileShared, fileExcl, winner >>
       \/ /\ ~MutexFree
          /\ winner' = [winner EXCEPT ![p] = CHOOSE q \in contentsHeld : TRUE]
          /\ Goto(p, "WaitContents")
          /\ UNCHANGED << stage, locks >>
       \/ /\ CatchUseExisting(p)
          /\ UNCHANGED winner
    /\ UNCHANGED << result, reported, cache, mem, updLocals, replacing, abandoned,
                    updaters, rebuilt, env >>

\* contentsLock.acquire() of the other branch: wait for the mutex ...
WaitContents(p) ==
    /\ pc[p] = "WaitContents"
    /\ MutexFree
    /\ contentsHeld' = contentsHeld \cup {p}
    /\ Goto(p, "WaitRelease")
    /\ UNCHANGED << stage, result, reported, fileShared, fileExcl, cache, mem,
                    updLocals, history, env >>

\* ... and the temporary it returns lets go of the mutex at once.
WaitRelease(p) ==
    /\ pc[p] = "WaitRelease"
    /\ contentsHeld' = contentsHeld \ {p}
    /\ Goto(p, "ReturnExisting")
    /\ UNCHANGED << stage, result, reported, fileShared, fileExcl, cache, mem,
                    updLocals, history, env >>

\* ------------------------------------------------------------- UpdateIndex
\* Variant: a scan that throws leaves the first try block with the contents mutex
\* still owned.
UpdateScan_FailHoldingMutex(p, inv, ids, captured, next) ==
    \/ /\ cache' = [cache EXCEPT !.index = IF inv = "MSIX"
                                           THEN UpdateIndexFromMSIX(cache.index)
                                           ELSE UpdateIndexFromARP(cache.index, inv)]
       /\ idsSet' = [idsSet EXCEPT ![p] = ids \ FoundIds(cache.index, inv)]
       /\ allIds' = [allIds EXCEPT ![p] = captured]
       /\ Goto(p, next)
       /\ UNCHANGED << stage, locks, abandoned >>
    \/ /\ EnumMayFail
       /\ CatchUseExisting_KeepMutex(p)
       /\ abandoned' = (abandoned \/ cache.index # captured)
       /\ allIds' = [allIds EXCEPT ![p] = {}]
       /\ idsSet' = [idsSet EXCEPT ![p] = {}]
       /\ UNCHANGED cache

\* One inventory scan of the update pass, given the ids not found so far and the
\* records captured at the start of the pass: it either goes through, or the
\* enumeration of the whole inventory throws and the pass is cut short.
UpdateScan(p, inv, ids, captured, next) ==
    \/ /\ cache' = [cache EXCEPT !.index = IF inv = "MSIX"
                                           THEN UpdateIndexFromMSIX(cache.index)
                                           ELSE UpdateIndexFromARP(cache.index, inv)]
       /\ idsSet' = [idsSet EXCEPT ![p] = ids \ FoundIds(cache.index, inv)]
       /\ allIds' = [allIds EXCEPT ![p] = captured]
       /\ Goto(p, next)
       /\ UNCHANGED << stage, locks, abandoned >>
    \/ /\ EnumMayFail
       /\ CatchUseExisting(p)
       /\ abandoned' = (abandoned \/ cache.index # captured)
       /\ allIds' = [allIds EXCEPT ![p] = {}]
       /\ idsSet' = [idsSet EXCEPT ![p] = {}]
       /\ UNCHANGED cache

\* Start of UpdateIndex: get all unique ids in the index and create a set for easy
\* removal in updates; arpHelper.UpdateIndexFromARP(index, ScopeEnum::Machine, idsSet)
UpdateMachine(p) ==
    /\ pc[p] = "UpdateIndex"
    /\ updaters' = updaters \cup {p}
    /\ UpdateScan(p, "Machine", Ids(cache.index), cache.index, "UpdateUser")
    /\ UNCHANGED << result, reported, mem, replacing, winner, rebuilt, env >>

\* Variant: after the User scan the ids not found so far are removed at once.
UpdateUser_RemovesUnfound(p) ==
    /\ pc[p] = "UpdateUser"
    /\ \/ /\ cache' = [cache EXCEPT !.index =
                          RemoveManifestsById(UpdateIndexFromARP(cache.index, "User"),
                                              idsSet[p] \ FoundIds(cache.index, "User"))]
          /\ idsSet' = [idsSet EXCEPT ![p] = idsSet[p] \ FoundIds(cache.index, "User")]
          /\ Goto(p, "UpdateMSIX")
          /\ UNCHANGED << stage, locks, abandoned, allIds >>
       \/ /\ EnumMayFail
          /\ CatchUseExisting(p)
          /\ abandoned' = (abandoned \/ cache.index # allIds[p])
          /\ allIds' = [allIds EXCEPT ![p] = {}]
          /\ idsSet' = [idsSet EXCEPT ![p] = {}]
          /\ UNCHANGED cache
    /\ UNCHANGED << result, reported, mem, replacing, updaters, winner, rebuilt, env >>

\* arpHelper.UpdateIndexFromARP(index, ScopeEnum::User, idsSet)
UpdateUser(p) ==
    /\ pc[p] = "UpdateUser"
    /\ UpdateScan(p, "User", idsSet[p], allIds[p], "UpdateMSIX")
    /\ UNCHANGED << result, reported, mem, replacing, updaters, winner, rebuilt, env >>

\* UpdateIndexFromMSIX(index, idsSet)
UpdateMSIX(p) ==
    /\ pc[p] = "UpdateMSIX"
    /\ UpdateScan(p, "MSIX", idsSet[p], allIds[p], "UpdateRemove")
    /\ UNCHANGED << result, reported, mem, replacing, updaters, winner, rebuilt, env >>

\* Variant: the removal loop runs over every captured id instead of idsSet.
UpdateRemove_AllIds(p) ==
    /\ pc[p] = "UpdateRemove"
    /\ cache' = [cache EXCEPT !.index = RemoveManifestsById(cache.index, Ids(allIds[p]))]
    /\ replacing' = FALSE
    /\ abandoned' = FALSE
    /\ Goto(p, "ReleaseContents")
    /\ UNCHANGED << stage, result, reported, locks, mem, updLocals, updaters, winner,
                    rebuilt, env >>

\* Any values still in the set were not found during inventory; remove them.
UpdateRemove(p) ==
    /\ pc[p] = "UpdateRemove"
    /\ cache' = [cache EXCEPT !.index = RemoveManifestsById(cache.index, idsSet[p])]
    /\ replacing' = FALSE
    /\ abandoned' = FALSE
    /\ Goto(p, "ReleaseContents")
    /\ UNCHANGED << stage, result, reported, locks, mem, updLocals, updaters, winner,
                    rebuilt, env >>

\* End of the scope of exclusiveContentsLock.
ReleaseContents(p) ==
    /\ pc[p] = "ReleaseContents"
    /\ contentsHeld' = contentsHeld \ {p}
    /\ allIds' = [allIds EXCEPT ![p] = {}]
    /\ idsSet' = [idsSet EXCEPT ![p] = {}]
    /\ Goto(p, "ReturnExisting")
    /\ UNCHANGED << stage, result, reported, fileShared, fileExcl, cache, mem,
                    history, env >>

\* Return the existing cache; the source takes the shared file lock with it.
ReturnExisting(p) ==
    /\ pc[p] = "ReturnExisting"
    /\ Finish(p, "Existing", Entries(cache.index))
    /\ UNCHANGED << stage, locks, cache, mem, updLocals, history, env >>

\* ---------------------------------------------------------------- recreate
\* Variant: the recreate stage takes the file lock shared instead of exclusive.
LockExclusiveFile_Shared(p) ==
    /\ pc[p] = "LockExclusive"
    /\ \/ /\ CanLockShared(p)
          /\ fileShared' = fileShared \cup {p}
          /\ GoOn(p, "RecreateCache")
          /\ UNCHANGED << stage, fileExcl, contentsHeld, rebuilt >>
       \/ CatchRecreate(p)
    /\ UNCHANGED << cache, updLocals, pastUpdates, env >>

\* LockExclusive(c_fileLockName)
LockExclusiveFile(p) ==
    /\ pc[p] = "LockExclusive"
    /\ \/ /\ CanLockExclusive(p)
          /\ fileExcl' = fileExcl \cup {p}
          /\ GoOn(p, "RecreateCache")
          /\ UNCHANGED << stage, fileShared, contentsHeld, rebuilt >>
       \/ CatchRecreate(p)
    /\ UNCHANGED << cache, updLocals, pastUpdates, env >>

\* std::filesystem::remove_all(cacheDirectory)
RemoveAll(c) == EmptyCache

\* std::filesystem::create_directories(cacheDirectory)
CreateDirectories(c) == [c EXCEPT !.dir = TRUE]

\* SQLiteIndex::CreateNew(cacheFile)
CreateNew(c) == [c EXCEPT !.file = TRUE, !.index = {}]

\* The block under the exclusive file lock: remove the cache directory, create it,
\* create a new index file, PopulateIndex, release the lock at the end of the
\* scope.  Any of the calls may throw; what was done before it stays on disk, and
\* the inventories may throw after any number of scans went through.
RecreateCache(p) ==
    /\ pc[p] = "RecreateCache"
    /\ LET removed == RemoveAll(cache)
           made    == CreateDirectories(removed)
           created == CreateNew(made)
       IN  \/ /\ FsMayWork
              /\ cache' = [created EXCEPT !.index = PopulateIndex(created.index)]
              /\ replacing' = FALSE
              /\ abandoned' = FALSE
              /\ fileExcl' = fileExcl \ {p}
              /\ rebuilt' = { q \in Procs \ {p} : pc[q] = "LockExclusive" }
              /\ GoOn(p, "LockShared2")
              /\ UNCHANGED << stage, fileShared, contentsHeld >>
           \/ /\ cache.dir
              /\ CatchRecreate(p)
              /\ UNCHANGED << cache, replacing, abandoned >>
           \/ /\ FsMayWork \/ ~cache.dir
              /\ cache' = removed
              /\ replacing' = (replacing \/ cache.dir)
              /\ CatchRecreate(p)
              /\ UNCHANGED abandoned
           \/ /\ FsMayWork
              /\ cache' = made
              /\ replacing' = (replacing \/ cache.dir)
              /\ CatchRecreate(p)
              /\ UNCHANGED abandoned
           \/ /\ FsMayWork
              /\ EnumMayFail
              /\ \E n \in 0..(NumScans - 1) :
                   cache' = [created EXCEPT !.index = PopulateSteps(created.index, n)]
              /\ replacing' = (cache'.index # PopulateIndex(created.index))
              /\ abandoned' = FALSE
              /\ CatchRecreate(p)
    /\ UNCHANGED << updLocals, updaters, winner, env >>

\* Reacquire a shared lock ...
RelockSharedFile(p) ==
    /\ pc[p] = "LockShared2"
    /\ \/ /\ CanLockShared(p)
          /\ fileShared' = fileShared \cup {p}
          /\ GoOn(p, "Reopen")
          /\ UNCHANGED << stage, fileExcl, contentsHeld, rebuilt >>
       \/ CatchRecreate(p)
    /\ UNCHANGED << cache, updLocals, pastUpdates, env >>

\* ... and reopen the index for further use; return the new cache.
Reopen(p) ==
    /\ pc[p] = "Reopen"
    /\ \/ /\ FsMayWork
          /\ cache.file
          /\ Finish(p, "Recreated", Entries(cache.index))
          /\ UNCHANGED << stage, locks, mem, rebuilt >>
       \/ CatchRecreate(p)
    /\ UNCHANGED << cache, updLocals, pastUpdates, env >>

\* ------------------------------------------------------------ the caller
Sources == {"Existing", "Recreated", "InMemory"}
Persistent == {"Existing", "Recreated"}
Errors == {"E_INVALIDARG", "EnumerationFailure"}

\* The caller lets go of the persistent source it was given: the shared file lock
\* that the source owns is released.  (An in-memory source owns no lock.)
CloseSource(p) ==
    /\ pc[p] = "done"
    /\ result[p] \in Persistent
    /\ fileShared' = fileShared \ {p}
    /\ Goto(p, "closed")
    /\ UNCHANGED << stage, result, reported, fileExcl, contentsHeld, cache, mem,
                    updLocals, history, env >>

\* -------------------------------------------------------- Add, Update, Remove
NotSupported == "E_NOTIMPL"

\* Add should never be needed, as this is predefined: THROW_HR(E_NOTIMPL).
Add(p) ==
    /\ pc[p] = "idle"
    /\ Finish(p, NotSupported, {})
    /\ UNCHANGED << stage, locks, cache, mem, updLocals, history, env >>

\* Update could be used later, but not for now: THROW_HR(E_NOTIMPL).
Update(p) ==
    /\ pc[p] = "idle"
    /\ Finish(p, NotSupported, {})
    /\ UNCHANGED << stage, locks, cache, mem, updLocals, history, env >>

\* Variant: Remove deletes the cache directory before it reports E_NOTIMPL.
Remove_DeletesCache(p) ==
    /\ pc[p] = "idle"
    /\ Finish(p, NotSupported, {})
    /\ cache' = EmptyCache
    /\ UNCHANGED << stage, locks, mem, updLocals, history, env >>

\* Similar to add, remove should never be needed: THROW_HR(E_NOTIMPL).
Remove(p) ==
    /\ pc[p] = "idle"
    /\ Finish(p, NotSupported, {})
    /\ UNCHANGED << stage, locks, cache, mem, updLocals, history, env >>

\* -------------------------------------------------------------------- Next
\* Every step of process p inside Create.
CreateStep(p) ==
    \/ LockSharedFile(p) \/ OpenExisting(p) \/ TryAcquireContents(p)
    \/ WaitContents(p) \/ WaitRelease(p)
    \/ UpdateMachine(p) \/ UpdateUser(p) \/ UpdateMSIX(p)
    \/ UpdateRemove(p) \/ ReleaseContents(p) \/ ReturnExisting(p)
    \/ LockExclusiveFile(p) \/ RecreateCache(p) \/ RelockSharedFile(p) \/ Reopen(p)

Next ==
    \E p \in Procs :
        CreateCall(p) \/ CreateStep(p) \/ CloseSource(p) \/ Add(p) \/ Update(p) \/ Remove(p)

Spec == Init /\ [][Next]_vars

\* A step of Create other than a lock or mutex acquisition that throws.
LockPcs == {"LockShared", "TryContents", "LockExclusive", "LockShared2"}
RunStep(p) == CreateStep(p) /\ ~(pc[p] \in LockPcs /\ stage'[p] # stage[p])

\* Every process inside Create keeps running and gets a lock that stays free; no
\* lock acquisition is bound to throw, and a caller may keep its source forever.
FairSpec == Spec /\ \A p \in Procs : WF_vars(RunStep(p))

TypeOK ==
    /\ fileShared \subseteq Procs
    /\ fileExcl \subseteq Procs
    /\ contentsHeld \subseteq Procs
    /\ \A p \in Procs : result[p] \in {"none", NotSupported} \cup Sources \cup Errors
    /\ rebuilt \subseteq Procs

\* ------------------------------------------- the populate passes on their own
\* Two passes of PopulateIndexFromMSIX start on empty indexes, on any platform
\* state and any two enumeration orders; no process is inside Create.
MsixInit ==
    /\ pc = [p \in Procs |-> "idle"]
    /\ stage = [p \in Procs |-> "Start"]
    /\ result = [p \in Procs |-> "none"]
    /\ reported = [p \in Procs |-> {}]
    /\ fileShared = {}
    /\ fileExcl = {}
    /\ contentsHeld = {}
    /\ cache = EmptyCache
    /\ mem = [p \in Procs |-> {}]
    /\ allIds = [p \in Procs |-> {}]
    /\ idsSet = [p \in Procs |-> {}]
    /\ replacing = FALSE
    /\ abandoned = FALSE
    /\ updaters = {}
    /\ winner = [p \in Procs |-> 0]
    /\ rebuilt = {}
    /\ Live = {}
    /\ denied = FALSE
    /\ msixPackages \in [MsixIds -> PackageStates]
    /\ enumerated \in [Passes -> EnumerationOrders]
    /\ position = [r \in Passes |-> 0]
    /\ manifest = [r \in Passes |-> NewManifest]
    /\ msixIndex = [r \in Passes |-> {}]

MsixNext == \E r \in Passes : PopulateMSIXPackage(r)

MsixSpec == MsixInit /\ [][MsixNext]_vars

\* ================================================================== claims
UpdatePcs == {"UpdateIndex", "UpdateUser", "UpdateMSIX", "UpdateRemove", "ReleaseContents"}

\* Process p is between acquiring and releasing the exclusive file lock.
InRecreateSection(p) ==
    pc[p] = "RecreateCache"

\* C1: at most one process is inside the recreate-from-scratch section (remove the
\* directory, create it, create the index, full populate) in every reachable state.
C1_OneRecreateAtATime == Cardinality({ p \in Procs : InRecreateSection(p) }) <= 1

\* C1 witness: one process populates the new cache file while another one is
\* waiting for the exclusive file lock.
C1_Witness ==
    \E p, q \in Procs :
        /\ p # q
        /\ InRecreateSection(p)
        /\ pc[q] = "LockExclusive"

\* C2: a process holding the file lock shared never sees the cache in the middle of
\* a replacement (removed and not rebuilt, or created and not fully populated),
\* also when a recreate pass of another process failed part-way.
C2_ReaderSeesWholeFile == \A p \in fileShared : ~replacing

\* C3 (as stated): of the processes that are inside Create at the same time on an
\* openable cache (both in the reuse stage), at most one runs the update pass.
C3_OneUpdatePassAmongOverlapping ==
    \A p, q \in updaters :
        (p # q /\ InCreate(p) /\ InCreate(q))
           => ~(stage[p] = "TryUseExisting" /\ stage[q] = "TryUseExisting")

\* C3 (amended): at most one process is inside UpdateIndex at a time, and a process
\* whose zero-timeout try-acquire failed runs no update pass in that call.
C3_OneUpdaterAtATime ==
    /\ Cardinality({ p \in Procs : pc[p] \in UpdatePcs }) <= 1
    /\ Losers \cap updaters = {}

\* C3 witness: a process lost the try-acquire, waited, and returned the existing
\* cache that another process updated.
C3_Witness ==
    \E p \in Losers :
        /\ result[p] = "Existing"
        /\ winner[p] \in updaters

\* C4: the loser of the race for the contents mutex returns only when the winner is
\* no longer inside UpdateIndex, and never returns a source whose index reflects an
\* update pass that a failure cut short.
C4_LoserReturnsAfterCompleteUpdate ==
    [][ \A p \in Losers :
          (pc[p] = "ReturnExisting" /\ pc'[p] = "done")
             => (pc[winner[p]] \notin UpdatePcs /\ ~abandoned) ]_vars

\* C5: two processes that raced for the contents mutex are handed sources that
\* report the same entry set, the set of live packages.
C5_SameEntrySets ==
    \A p \in Losers :
        (result[p] \in Sources /\ result[winner[p]] \in Sources)
           => (reported[p] = reported[winner[p]] /\ reported[p] = Live)

\* C6: when UpdateIndex has run to its end on an index with the records allIds, the
\* index holds exactly one record per live package: a record of a live package is
\* kept with its id, the id of any other record is gone, a new package is added.
C6_UpdateReconciles ==
    \A p \in Procs :
        pc[p] = "ReleaseContents" =>
            /\ Entries(cache.index) = Live
            /\ Cardinality(cache.index) = Cardinality(Live)
            /\ \A r \in allIds[p] :
                 IF r.pkg \in Live THEN r \in cache.index ELSE r.id \notin Ids(cache.index)

\* C6 witness: an update pass ended that had a record to remove, one to keep and
\* a package to add.
C6_Witness ==
    \E p \in Procs :
        /\ pc[p] = "ReleaseContents"
        /\ Entries(allIds[p]) \ Live # {}
        /\ Entries(allIds[p]) \cap Live # {}
        /\ Live \ Entries(allIds[p]) # {}

\* C7: a call with the right source type never ends with an error; the only error
\* Create ends with is the argument error.
C7_NoErrorForRightType == \A p \in Procs : result[p] \in Errors => result[p] = "E_INVALIDARG"

\* C8: when the cache directory cannot be touched and enumeration works, Create
\* raises no error and returns an in-memory source that holds the whole live
\* inventory, one record per package, and carries no file lock.
C8_FallbackOnDenial ==
    denied =>
        \A p \in Procs :
            /\ result[p] # "EnumerationFailure"
            /\ result[p] \in Sources =>
                 /\ result[p] = "InMemory"
                 /\ reported[p] = Live
                 /\ Cardinality(mem[p]) = Cardinality(Live)
                 /\ p \notin fileShared \cup fileExcl

\* C8 witness: under denial a process got an in-memory source of a system with a
\* package in each inventory.
C8_Witness ==
    /\ denied
    /\ Live = Packages
    /\ \E p \in Procs : pc[p] = "done" /\ result[p] = "InMemory"

\* C9: under fair scheduling every call of Create ends, also while other callers
\* keep the sources they were given.
C9_CreateTerminates ==
    \A p \in Procs : (pc[p] # "idle") ~> (pc[p] \in {"done", "closed"})

\* C10: once Create has ended the process holds the shared file lock exactly when
\* it was given a persistent source that it still has, and never the contents
\* mutex or the exclusive file lock.
C10_LocksAtEnd ==
    \A p \in Procs :
        pc[p] \in {"done", "closed"} =>
            /\ p \notin contentsHeld
            /\ p \notin fileExcl
            /\ (p \in fileShared) <=> (pc[p] = "done" /\ result[p] \in Persistent)

\* C10 witness: a call ended with a recreated cache after its update pass had
\* failed, and another call ended with an error in the fallback.
C10_Witness ==
    \E p, q \in Procs :
        /\ pc[p] = "done" /\ result[p] = "Recreated" /\ p \in updaters
        /\ pc[q] = "done" /\ result[q] = "EnumerationFailure"

\* Process q owns a persistent source that Create returned to it.
OwnsPersistentSource(q) == pc[q] = "done" /\ result[q] \in Persistent

\* C11: while a process owns a persistent source it holds the file lock shared, and
\* a process that is about to remove, create or replace the cache directory or
\* file holds the file lock exclusively with no shared holder; the directory and
\* the file come and go only in a step of such a process.
C11_NoReplaceWhileOwned ==
    /\ [](\A q \in Procs : OwnsPersistentSource(q) => q \in fileShared)
    /\ [](\A p \in Procs : pc[p] = "RecreateCache" => (fileExcl = {p} /\ fileShared = {}))
    /\ [][ (cache'.dir # cache.dir \/ cache'.file # cache.file)
             => \E p \in Procs : /\ pc[p] = "RecreateCache" /\ pc'[p] # pc[p]
                                 /\ fileExcl = {p} /\ fileShared = {}
                                 /\ \A q \in Procs : ~OwnsPersistentSource(q) ]_vars

\* C11 witness: a process is inside the recreate block after the owner of a
\* persistent source let go of it.
C11_Witness ==
    \E p, q \in Procs :
        /\ pc[p] = "RecreateCache"
        /\ cache.file
        /\ pc[q] = "closed" /\ result[q] \in Persistent

\* The processes that hold the contents mutex or wait for it.
OnContentsLock == contentsHeld \cup { q \in Procs : pc[q] = "WaitContents" }

\* The processes that request or hold the exclusive file lock.
OnExclusiveLock == { p \in Procs : pc[p] \in {"LockExclusive", "RecreateCache"} }

\* C12 (as stated): a process waiting for the exclusive file lock is never kept
\* from it by processes that all hold or wait for the contents lock.
C12_ExclusiveNotBlockedByContents ==
    \A p \in Procs :
        (pc[p] = "LockExclusive" /\ ~CanLockExclusive(p))
           => \E q \in fileShared \cup fileExcl : q \notin OnContentsLock

\* C12 (amended): a process that requests or holds the exclusive file lock neither
\* holds nor waits for the contents lock, and a process that holds or waits for
\* the contents lock holds the file lock shared (it is through that lock, never
\* through the contents lock, that it keeps an exclusive request waiting).
C12_LocksIndependent ==
    /\ OnExclusiveLock \cap OnContentsLock = {}
    /\ OnContentsLock \subseteq fileShared

\* C12 witness: a request for the exclusive file lock waits while the only holder
\* of the shared file lock is the owner of the contents mutex.
C12_Witness ==
    \E p, q \in Procs :
        /\ pc[p] = "LockExclusive"
        /\ fileShared = {q} /\ fileExcl = {}
        /\ q \in contentsHeld

\* C13: in a pass over the platform packages, the record of a package whose
\* display name lookup throws carries the raw name of that same package, whatever
\* packages the pass went through before.
C13_FailedLookupUsesOwnName ==
    \A r \in Passes : \A rec \in msixIndex[r] : \A k \in MsixIds :
        (rec.Id = FamilyName(k) /\ msixPackages[k].DisplayName = "throws")
           => rec.Name = PackageName(k)

\* The entries of an index under entry-identity comparison: ids left out.
EntriesOf(index) == { [Id |-> x.Id, Name |-> x.Name, Version |-> x.Version] : x \in index }

\* Pass r has been through every package the platform handed it.
PassDone(r) == position[r] = Len(enumerated[r])

\* C14: two full passes on two fresh indexes against the same platform state end
\* with the same entries (identity, name, version), whatever the two orders in
\* which the platform yields the packages.
C14_PopulateTwiceSameEntries ==
    (\A r \in Passes : PassDone(r))
       => \A r1, r2 \in Passes : EntriesOf(msixIndex[r1]) = EntriesOf(msixIndex[r2])

\* C15: a call with another source type ends at once with the argument error: it
\* comes straight from the entry of Create, no stage is entered, no lock is taken,
\* the cache and the indexes are as they were and no inventory was scanned.
C15_WrongTypeFailsAtOnce ==
    /\ [](\A p \in Procs :
            result[p] = "E_INVALIDARG" =>
                /\ pc[p] = "done"
                /\ stage[p] = "Start"
                /\ p \notin fileShared \cup fileExcl \cup contentsHeld
                /\ p \notin updaters
                /\ mem[p] = {} /\ reported[p] = {})
    /\ [][ \A p \in Procs :
             (result'[p] = "E_INVALIDARG" /\ result[p] # "E_INVALIDARG")
                => /\ pc[p] = "idle"
                   /\ UNCHANGED << stage, locks, cache, mem, updLocals >> ]_vars

\* C15 witness: a call ended with the argument error while another process was in
\* the middle of an update pass on the cache.
C15_Witness ==
    \E p, q \in Procs :
        /\ result[p] = "E_INVALIDARG"
        /\ pc[q] = "UpdateUser"
        /\ cache.index # {}

\* C16: Add, Update and Remove always end with E_NOTIMPL, an outcome of its own
\* (neither the argument error nor a failure of Create nor a source), in whatever
\* state the other processes are, and leave the cache, the indexes and the locks
\* as they were.
C16_AddUpdateRemoveNotSupported ==
    /\ [](/\ NotSupported \notin Errors \cup Sources \cup {"none"}
          /\ \A p \in Procs :
                result[p] = NotSupported =>
                    /\ pc[p] = "done"
                    /\ p \notin fileShared \cup fileExcl \cup contentsHeld)
    /\ [][ \A p \in Procs :
             (Add(p) \/ Update(p) \/ Remove(p))
                => /\ result'[p] = NotSupported
                   /\ UNCHANGED << stage, locks, cache, mem, updLocals >> ]_vars

\* C16 witness: an unsupported operation ended while another process owned the
\* contents mutex of an existing cache.
C16_Witness ==
    \E p, q \in Procs :
        /\ result[p] = NotSupported
        /\ q \in contentsHeld
        /\ cache.file

\* The positions of UpdateIndex at which a scan is still to be made.
ScanPcs == {"UpdateIndex", "UpdateUser", "UpdateMSIX"}

\* C17: an update pass removes no record before its three scans are through: the
\* records captured at the start are all in the index up to the removal loop, a
\* scan step (also one that throws) takes no record out, and a record leaves an
\* existing index only in the removal loop or when the cache is replaced.
C17_NoRemovalBeforeAllScans ==
    /\ [](\A p \in Procs :
            pc[p] \in {"UpdateUser", "UpdateMSIX", "UpdateRemove"} => allIds[p] \subseteq cache.index)
    /\ [][ \A p \in Procs :
             (pc[p] \in ScanPcs /\ pc'[p] # pc[p]) => cache.index \subseteq cache'.index ]_vars
    /\ [][ ~(cache.index \subseteq cache'.index)
             => \E p \in Procs : pc[p] \in {"UpdateRemove", "RecreateCache"} /\ pc'[p] # pc[p] ]_vars

\* C17 witness: an update pass was cut short by a scan that threw, after it had
\* added a record, and the record of a package that is gone is still in the index.
C17_Witness ==
    \E p \in updaters :
        /\ pc[p] = "LockExclusive"
        /\ abandoned
        /\ Entries(cache.index) \ Live # {}

\* The positions of Create inside the first and inside the second try block.
ReusePcs ==
    {"LockShared", "Open", "TryContents", "WaitContents", "WaitRelease", "ReturnExisting"}
        \cup UpdatePcs
RecreatePcs == {"LockExclusive", "RecreateCache", "LockShared2", "Reopen"}

\* The stage changes a call may make.
StageOrder ==
    { << "Start", "TryUseExisting" >>, << "TryUseExisting", "Recreate" >>,
      << "Recreate", "Fallback" >> }

\* C18: a call goes through reuse, recreate and in-memory fallback in that order,
\* each at most once: its position is always inside the stage it is in, a source
\* comes from the stage that returns it, every change of stage is a move to the
\* next weaker stage, and a call that left the first try block never is in it again.
C18_StagesInOrder ==
    /\ [](\A p \in Procs :
            /\ pc[p] \in ReusePcs => stage[p] = "TryUseExisting"
            /\ pc[p] \in RecreatePcs => stage[p] = "Recreate"
            /\ result[p] = "Existing" => stage[p] = "TryUseExisting"
            /\ result[p] = "Recreated" => stage[p] = "Recreate"
            /\ result[p] \in {"InMemory", "EnumerationFailure"} => stage[p] = "Fallback")
    /\ [][ \A p \in Procs :
             /\ stage'[p] # stage[p] => << stage[p], stage'[p] >> \in StageOrder
             /\ pc[p] \in RecreatePcs => pc'[p] \notin ReusePcs ]_vars

\* C18 witness: a call went through all three stages: its update pass failed, its
\* recreate stage failed, and it returned the in-memory index.
C18_Witness ==
    \E p \in updaters :
        /\ pc[p] = "done"
        /\ result[p] = "InMemory"
        /\ cache.file

\* The processes inside a pass that writes to the persistent cache.
Mutators == { p \in Procs : pc[p] \in UpdatePcs \cup {"RecreateCache"} }

\* C19: the persistent cache is written only by a process that holds the file
\* lock exclusively (replacement) or the file lock shared together with the
\* contents mutex (update in place); at most one process is inside such a pass, so
\* two update passes never overlap and an update pass never overlaps a recreate.
C19_MutationsUnderLocks ==
    /\ [](\A p \in Procs :
            /\ pc[p] \in UpdatePcs => (p \in fileShared /\ contentsHeld = {p} /\ fileExcl = {})
            /\ pc[p] = "RecreateCache" => (fileExcl = {p} /\ fileShared = {}))
    /\ [](Cardinality(Mutators) <= 1)
    /\ [][ cache' # cache
             => \E p \in Mutators :
                  /\ pc'[p] # pc[p]
                  /\ pc[p] \in UpdatePcs => (cache'.dir = cache.dir /\ cache'.file = cache.file) ]_vars

\* C19 witness: an update pass is at its removal loop with ids to remove while
\* another process waits for the contents mutex.
C19_Witness ==
    \E p, q \in Procs :
        /\ pc[p] = "UpdateRemove"
        /\ idsSet[p] # {}
        /\ pc[q] = "WaitContents"

\* The cache file holds exactly one record per installed package.
CacheComplete ==
    /\ cache.file
    /\ Entries(cache.index) = Live
    /\ Cardinality(cache.index) = Cardinality(Live)

\* C20: a process that headed for the recreate stage together with another one,
\* and waited for the exclusive file lock while that one rebuilt the cache, does
\* not enter the recreate block to remove and rebuild the freshly written cache
\* and the records in it.
C20_RecreateNotDuplicated ==
    \A p \in rebuilt : ~(pc[p] = "RecreateCache" /\ CacheComplete /\ cache.index # {})

=============================================================================
